---- MODULE Spec2Model ----
(***************************************************************************)
(* Session protocol of web-pico-editor (src/src/index.ts): one serial port  *)
(* shared by the terminal passthrough (readpicoport), the marker scans      *)
(* (clearpicoport) and the raw-REPL transactions (runCode, writeFile,       *)
(* loadTempPy).  Every async function is a process; one action is the code  *)
(* that runs between two awaits.  Continuations of promises that are        *)
(* already settled (microtasks) run before any user or device event.        *)
(***************************************************************************)
EXTENDS Integers, Sequences, FiniteSets, TLC

VARIABLES
  port,        \* transport: "closed" | "opening" | "opened" | "closing"
  rfatal,      \* transport: the readable end is lost until the port is reopened
  wfatal,      \* transport: the writable end is lost until the port is reopened
  rstream,     \* port.readable: "none" | "live" | "closing" (cancel in progress)
  rlock,       \* reader holding the lock of port.readable, or None
  rstate,      \* reader id -> "live" | "closed" | "errored" | "released"
  wlock,       \* writer holding the lock of port.writable, or None
  wstate,      \* writer id -> "live" | "errored" | "released"
  wq,          \* writes accepted by port.writable and not yet sent
  wire,        \* what the device has received: <<tx, token>>
  picoport,    \* picoserial.picoport is defined
  picoreader,  \* picoserial.picoreader: a reader id or None
  writer,      \* Pico.writer: a writer id or None
  procs,       \* the async function calls in flight
  editor,      \* content of the code editor
  chooser,     \* the port chooser of requestPort is showing
  ev,          \* what the last step did, in order
  nops,        \* button clicks so far
  nkeys,       \* terminal keystrokes so far
  nchunks,     \* device chunks delivered so far
  nerrs,       \* transport errors so far
  sBytes,      \* scan harness: the device byte stream
  sIn,         \* scan harness: chunks not yet read
  sMarks,      \* scan harness: markers of the consecutive scans
  sOut,        \* scan harness: results of the finished scans
  sAcc,        \* scan harness: result accumulated by the running scan
  sDec,        \* scan harness: bytes pending in the running scan's decoder
  sPc,         \* scan harness: "scan" | "eof" | "done"
  sLease,      \* scan harness: the running scan holds picoserial.picoreader
  fContent,    \* file harness: the content given to writeFile
  fTodo,       \* file harness: writes writeFile has still to make
  fWire,       \* file harness: writes writeFile has made, in order
  conn         \* port harness: the port reference, the ports and the calls

vars == <<port, rfatal, wfatal, rstream, rlock, rstate, wlock, wstate, wq, wire,
          picoport, picoreader, writer, procs, editor, chooser, ev,
          nops, nkeys, nchunks, nerrs,
          sBytes, sIn, sMarks, sOut, sAcc, sDec, sPc, sLease,
          fContent, fTodo, fWire, conn>>

mainVars == <<port, rfatal, wfatal, rstream, rlock, rstate, wlock, wstate, wq, wire,
              picoport, picoreader, writer, procs, editor, chooser, ev,
              nops, nkeys, nchunks, nerrs>>

scanVars == <<sBytes, sIn, sMarks, sOut, sAcc, sDec, sPc, sLease>>

fileVars == <<fContent, fTodo, fWire>>

portVars == <<conn>>

----------------------------------------------------------------------------
(* Bounds *)
MaxOps == 3
MaxKeys == 1
MaxChunks == 2
MaxErrs == 1
MaxBytes == 4
MaxClicks == 3

(* Characters and control bytes *)
CtrlA == 1
CtrlB == 2
CtrlC == 3
CtrlD == 4
LF == 10
CR == 13
ChO == 79
ChK == 75
Replacement == 65533

OK == <<ChO, ChK>>
EOT == <<CtrlD>>
NoMarker == <<>>

None == <<0, "none", 0>>

\* the serial ports the page knows, and an undefined port reference
Ports == {1, 2}
NoPort == 0

\* the page after DOMContentLoaded: no port reference, the 'prompt' option
\* selected, every port closed, no reader, no call in flight
NoCalls ==
  [picoport |-> NoPort, selected |-> NoPort, disabled |-> FALSE,
   state |-> [p \in Ports |-> "closed"], locked |-> {}, picoreader |-> NoPort,
   calls |-> {}, clicks |-> 0, chooser |-> FALSE]

----------------------------------------------------------------------------
(* Text *)

\* String.prototype.includes
Includes(s, t) ==
  \E i \in 1..(Len(s) - Len(t) + 1) : SubSeq(s, i, i + Len(t) - 1) = t

\* index of the first occurrence of t in s (s includes t)
IndexOf(s, t) ==
  CHOOSE i \in 1..(Len(s) - Len(t) + 1) :
    /\ SubSeq(s, i, i + Len(t) - 1) = t
    /\ \A j \in 1..(i - 1) : SubSeq(s, j, j + Len(t) - 1) # t

\* const [beforeTarget] = chunk.split(targetChar)
BeforeTarget(s, t) == SubSeq(s, 1, IndexOf(s, t) - 1)

\* TextDecoder.decode(value, {stream: true}) for UTF-8 sequences of one and two
\* bytes: pend is the lead byte kept from the previous call, or <<>>
RECURSIVE DecodeFrom(_, _, _)
DecodeFrom(pend, bytes, out) ==
  IF bytes = <<>> THEN [out |-> out, dec |-> pend]
  ELSE LET b == Head(bytes) IN
    IF pend = <<>> THEN
      IF b < 128 THEN DecodeFrom(<<>>, Tail(bytes), Append(out, b))
      ELSE IF b >= 194 /\ b <= 223 THEN DecodeFrom(<<b>>, Tail(bytes), out)
      ELSE DecodeFrom(<<>>, Tail(bytes), Append(out, Replacement))
    ELSE
      IF b >= 128 /\ b <= 191
      THEN DecodeFrom(<<>>, Tail(bytes),
                      Append(out, (pend[1] - 192) * 64 + (b - 128)))
      ELSE DecodeFrom(<<>>, bytes, Append(out, Replacement))

\* every call starts with an empty decoder
DecodeReset(pend, bytes) == DecodeFrom(<<>>, bytes, <<>>)

Decode(pend, bytes) == DecodeFrom(pend, bytes, <<>>)

\* TextDecoder.decode(value) of a whole byte sequence: a sequence cut short at
\* the end decodes to U+FFFD
DecodeAll(bytes) ==
  LET d == Decode(<<>>, bytes) IN
  IF d.dec = <<>> THEN d.out ELSE Append(d.out, Replacement)

\* the loop keeps the last chunk only
ScanStepLastChunk(res, tgt, text) ==
  IF tgt # NoMarker /\ Includes(text, tgt)
  THEN [stop |-> TRUE, res |-> BeforeTarget(text, tgt)]
  ELSE [stop |-> FALSE, res |-> text]

\* the body of clearpicoport's for-await loop on one decoded chunk
ScanStep(res, tgt, text) ==
  IF tgt # NoMarker /\ Includes(text, tgt)
  THEN [stop |-> TRUE, res |-> res \o BeforeTarget(text, tgt)]
  ELSE [stop |-> FALSE, res |-> res \o text]

----------------------------------------------------------------------------
(* One synchronous run of code works on a record of the state, so that the   *)
(* calls it makes compose in program order.                                  *)

Cur == [port |-> port, rfatal |-> rfatal, wfatal |-> wfatal,
        rstream |-> rstream, rlock |-> rlock, rstate |-> rstate,
        wlock |-> wlock, wstate |-> wstate, wq |-> wq, wire |-> wire,
        picoport |-> picoport, picoreader |-> picoreader, writer |-> writer,
        procs |-> procs, editor |-> editor, chooser |-> chooser, ev |-> <<>>,
        nops |-> nops, nkeys |-> nkeys, nchunks |-> nchunks, nerrs |-> nerrs]

\* readers and writers nothing refers to any more are forgotten
ReaderInUse(s, r) ==
  \/ r = s.picoreader
  \/ r = s.rlock
  \/ \E p \in s.procs : p.rd = r \/ p.id = r

WriterInUse(s, w) == w = s.writer \/ w = s.wlock

Commit(s) ==
  /\ port' = s.port
  /\ rfatal' = s.rfatal
  /\ wfatal' = s.wfatal
  /\ rstream' = s.rstream
  /\ rlock' = s.rlock
  /\ rstate' = [r \in {x \in DOMAIN s.rstate : ReaderInUse(s, x)} |-> s.rstate[r]]
  /\ wlock' = s.wlock
  /\ wstate' = [w \in {x \in DOMAIN s.wstate : WriterInUse(s, x)} |-> s.wstate[w]]
  /\ wq' = s.wq
  /\ wire' = s.wire
  /\ picoport' = s.picoport
  /\ picoreader' = s.picoreader
  /\ writer' = s.writer
  /\ procs' = s.procs
  /\ editor' = s.editor
  /\ chooser' = s.chooser
  /\ ev' = s.ev
  /\ nops' = s.nops
  /\ nkeys' = s.nkeys
  /\ nchunks' = s.nchunks
  /\ nerrs' = s.nerrs
  /\ UNCHANGED <<scanVars, fileVars, portVars>>

Ev(e, id, x) == [e |-> e, tx |-> id[1], k |-> id[2], x |-> x, y |-> <<>>]
Emit(s, e) == [s EXCEPT !.ev = Append(@, e)]

NewProc(id, pc) ==
  [id |-> id, pc |-> pc, rd |-> None, tgt |-> NoMarker, res |-> <<>>,
   dec |-> <<>>, todo |-> <<>>, par |-> None, loc |-> FALSE]

Proc(s, id) == CHOOSE p \in s.procs : p.id = id
Put(s, p) == [s EXCEPT !.procs = {q \in @ : q.id # p.id} \cup {p}]
Drop(s, id) == [s EXCEPT !.procs = {q \in @ : q.id # id}]

\* an async function returns ("ok") or rejects ("threw")
End(s, id, how) == Emit(Drop(s, id), Ev("end", id, how))

\* a continuation whose promise is settled runs before any new event
ReadyPcs == {"rdone", "rerr", "werr", "cancel1r", "cancel2r",
             "sdone1", "sdone2", "sthrew"}
Ready(s) == \E p \in s.procs : p.pc \in ReadyPcs

----------------------------------------------------------------------------
(* The read end: port.readable, getReader, read, cancel, releaseLock *)

\* picoserial.picoport && picoserial.picoport.readable
CanRead(s) ==
  /\ s.picoport
  /\ \/ s.rstream # "none"
     \/ s.port = "opened" /\ ~s.rfatal

\* picoserial.picoreader = picoserial.picoport.readable.getReader()
GetReader(s, id) ==
  [s EXCEPT !.rstream = IF @ = "none" THEN "live" ELSE @,
            !.rlock = id,
            !.rstate = (id :> (IF s.rstream = "closing" THEN "closed" ELSE "live")) @@ @,
            !.picoreader = id]

\* reader.releaseLock(): reads still pending on the reader are rejected
ReleaseReader(s, r) ==
  IF s.rstate[r] = "released" THEN s
  ELSE [s EXCEPT !.rstate[r] = "released",
                 !.rlock = IF @ = r THEN None ELSE @,
                 !.procs = {IF p.pc = "read" /\ p.rd = r
                            THEN [p EXCEPT !.pc = "rerr"] ELSE p : p \in @}]

\* how reader.cancel() settles: "wait" (when the transport has discarded its
\* input), "now" (the stream is closed already) or "reject"
CancelOutcome(s, r) ==
  CASE s.rstate[r] = "live" -> "wait"
    [] s.rstate[r] = "closed" -> "now"
    [] OTHER -> "reject"

\* reader.cancel() on a live stream: the stream is closed, pending reads end
CancelLive(s, r) ==
  [s EXCEPT !.rstream = "closing",
            !.rstate[r] = "closed",
            !.procs = {IF p.pc = "read" /\ p.rd = r
                       THEN [p EXCEPT !.pc = "rdone"] ELSE p : p \in @}]

\* the operation goes on to its writes without cancelling the reader
AwaitCancelSkipped(s, p, n) ==
  Put(s, [p EXCEPT !.pc = IF n = 1 THEN "cancel1r" ELSE "cancel2r"])

\* await picoserial.picoreader.cancel() by process p at cancel point n
AwaitCancel(s, p, n) ==
  LET r == s.picoreader
      o == CancelOutcome(s, r)
      s1 == Emit(s, Ev("cancel", r, o))
  IN CASE o = "wait" -> Put(CancelLive(s1, r), [p EXCEPT !.pc = IF n = 1 THEN "cancel1" ELSE "cancel2"])
       [] o = "now" -> Put(s1, [p EXCEPT !.pc = IF n = 1 THEN "cancel1r" ELSE "cancel2r"])
       [] OTHER -> End(s1, p.id, "threw")

\* the transport has finished the cancel: port.readable is a new stream
CancelSettled(s) ==
  IF s.rstream = "closing" THEN [s EXCEPT !.rstream = "none", !.rlock = None] ELSE s

\* readFromPort: const {value, done} = await picoserial.picoreader.read()
\* (a missing reader is a TypeError, caught by the caller's catch, which
\* reports it to the terminal and waits for the terminal's callback)
NextRead(s, p) ==
  IF s.picoreader = None
  THEN Put(Emit(s, Ev("term", p.id, "error")), [p EXCEPT !.pc = "errterm", !.rd = None])
  ELSE LET a == s.rstate[s.picoreader] IN
       Put(s, [p EXCEPT !.rd = s.picoreader,
                        !.pc = CASE a = "live" -> "read"
                                 [] a = "closed" -> "rdone"
                                 [] OTHER -> "rerr"])

\* entry of readpicoport and clearpicoport up to the first read
StartReader(s, id, tgt, par) ==
  IF ~CanRead(s) THEN Emit(s, Ev("noreader", id, "skip"))
  ELSE IF s.rlock # None THEN End(Emit(s, Ev("noreader", id, "locked")), id, "threw")
  ELSE NextRead(Emit(GetReader(s, id), Ev("getReader", id, "ok")),
                [NewProc(id, "read") EXCEPT !.tgt = tgt, !.par = par])

\* finally { picoreader.releaseLock(); picoreader = undefined } and the return;
\* the caller that awaits the scan continues with its result
Finish(s, p) ==
  LET how == IF s.picoreader = None THEN "threw" ELSE "ok"
      s1 == IF s.picoreader = None THEN s
            ELSE [ReleaseReader(s, s.picoreader) EXCEPT !.picoreader = None]
      s2 == End(s1, p.id, how)
  IN IF p.par = None THEN s2
     ELSE LET q == Proc(s2, p.par) IN
          Put(s2, [q EXCEPT !.pc = IF how = "threw" THEN "sthrew"
                                   ELSE IF p.id[3] = 1 THEN "sdone1" ELSE "sdone2",
                            !.res = p.res])

\* readpicoport()
ReadPicoPort(s, tx) == StartReader(s, <<tx, "pass", 0>>, NoMarker, None)

----------------------------------------------------------------------------
(* The write end: port.writable, getWriter, write, releaseLock *)

Tok(t, a) == [t |-> t, a |-> a]
Ctl(b) == Tok("ctl", <<b>>)

\* how a written token shows in the step's events
TokName(tok) ==
  IF tok.t # "ctl" THEN tok.t
  ELSE CASE tok.a[1] = CtrlA -> "ctrlA"
         [] tok.a[1] = CtrlB -> "ctrlB"
         [] tok.a[1] = CtrlC -> "ctrlC"
         [] OTHER -> "ctrlD"

\* picoserial.picoport && picoserial.picoport.writable
CanWrite(s) == s.picoport /\ s.port = "opened" /\ ~s.wfatal

\* getWriter() throws while the writable end is locked
Busy(s) == CanWrite(s) /\ s.wlock # None

\* Pico.prepareWritablePort (not Busy)
PrepareWritablePort(s, id) ==
  IF CanWrite(s)
  THEN Emit([s EXCEPT !.writer = id, !.wlock = id, !.wstate = (id :> "live") @@ @],
            Ev("getWriter", id, "ok"))
  ELSE [s EXCEPT !.writer = None]

\* Pico.releaseLock
ReleaseLock(s) ==
  IF s.writer # None /\ s.wstate[s.writer] = "live"
  THEN [s EXCEPT !.wstate[s.writer] = "released",
                 !.wlock = IF @ = s.writer THEN None ELSE @]
  ELSE s

\* Pico.write by process p: the write is queued on Pico.writer, is rejected
\* at once when that writer has lost its stream, or throws without a writer
Write(s, p, tok) ==
  IF s.writer = None THEN End(s, p.id, "threw")
  ELSE IF s.wstate[s.writer] = "live"
  THEN Put(Emit([s EXCEPT !.wq = Append(@, [tx |-> p.id[1], tok |-> tok, w |-> p.id])],
                Ev("write", p.id, TokName(tok))),
           [p EXCEPT !.pc = "w"])
  ELSE Put(s, [p EXCEPT !.pc = "werr"])

\* Pico.sendCommand(command), called for transaction tx
SendCommand(s, tx, tok) ==
  LET id == <<tx, "send", 0>> IN
  IF Busy(s) THEN End(Emit(s, Ev("busy", id, "getWriter")), id, "threw")
  ELSE LET s1 == PrepareWritablePort(s, id) IN
       IF s1.writer = None THEN End(s1, id, "ok")
       ELSE Write(s1, NewProc(id, "w"), tok)

\* content.split('\n')
RECURSIVE SplitLF(_, _)
SplitLF(c, cur) ==
  IF c = <<>> THEN <<cur>>
  ELSE IF Head(c) = LF THEN <<cur>> \o SplitLF(Tail(c), <<>>)
  ELSE SplitLF(Tail(c), Append(cur, Head(c)))

\* line.replace(/[\r\n]+$/, '')
RECURSIVE Sanitize(_)
Sanitize(l) ==
  IF l # <<>> /\ l[Len(l)] \in {CR, LF} THEN Sanitize(SubSeq(l, 1, Len(l) - 1)) ELSE l

\* the writes of writeFile after its first one
RECURSIVE LineWrites(_, _)
LineWrites(lines, i) ==
  IF i > Len(lines) THEN <<>>
  ELSE LET sl == Sanitize(lines[i]) IN
       IF i = Len(lines)
       THEN (IF sl # <<>> THEN <<Tok("fwriteLast", sl)>> ELSE <<>>)
       ELSE <<Tok("fwrite", Append(sl, LF))>> \o LineWrites(lines, i + 1)

\* every piece of the split is written as a line, the last one too
WriteFileWritesEveryLine(content) ==
  LET lines == SplitLF(content, <<>>) IN
  <<Tok("open", <<>>)>>
    \o [i \in 1..Len(lines) |-> Tok("fwrite", Append(Sanitize(lines[i]), LF))]
    \o <<Ctl(CtrlD)>>

WriteFileWrites(content) ==
  <<Tok("open", <<>>)>> \o LineWrites(SplitLF(content, <<>>), 1) \o <<Ctl(CtrlD)>>

RunCodeWrites(content) == <<Tok("text", content), Ctl(CtrlD), Ctl(CtrlB)>>

LoadWrites == <<Tok("import", <<>>), Tok("with", <<>>), Tok("print", <<>>), Ctl(CtrlD)>>

----------------------------------------------------------------------------
(* markDisconnected, openpicoport, disconnectFromPort *)

MarkDisconnected(s) ==
  Emit([s EXCEPT !.picoport = FALSE], Ev("term", None, "disconnected"))

\* openpicoport from picoport.open(options) on
OpenCall(s, p) ==
  IF ~s.picoport THEN End(s, p.id, "ok")
  ELSE IF s.port # "closed"
  THEN End(MarkDisconnected(Emit(Emit(s, Ev("open", p.id, "rejected")),
                                 Ev("term", p.id, "error"))), p.id, "ok")
  ELSE Put(Emit([s EXCEPT !.port = "opening"], Ev("open", p.id, "called")),
           [p EXCEPT !.pc = "open"])

\* disconnectFromPort from localPort.close() on (p.loc: localPort is defined);
\* close rejects when the port is not open or when one of its streams is locked
CloseRejects(s) == s.port # "opened" \/ s.rlock # None \/ s.wlock # None

\* the rejection of close() leaves disconnectFromPort uncaught
DiscCloseThrows(s, p) ==
  IF ~p.loc THEN End(MarkDisconnected(s), p.id, "ok")
  ELSE IF CloseRejects(s)
  THEN End(Emit(s, Ev("close", p.id, "rejected")), p.id, "threw")
  ELSE Put(Emit([s EXCEPT !.port = "closing", !.rstream = "none", !.wq = <<>>],
                Ev("close", p.id, "called")),
           [p EXCEPT !.pc = "close"])

DiscClose(s, p) ==
  IF ~p.loc THEN End(MarkDisconnected(s), p.id, "ok")
  ELSE IF CloseRejects(s)
  THEN End(MarkDisconnected(Emit(Emit(s, Ev("close", p.id, "rejected")),
                                 Ev("term", p.id, "error"))), p.id, "ok")
  ELSE Put(Emit([s EXCEPT !.port = "closing", !.rstream = "none", !.wq = <<>>],
                Ev("close", p.id, "called")),
           [p EXCEPT !.pc = "close"])

----------------------------------------------------------------------------
(* writeFile, loadTempPy, runCode: the code between two awaits *)

\* writeFile after the first cancel: start the drain scan, take the writer,
\* write CTRL+A
WriteFileTail(s, p) ==
  IF s.picoreader # None THEN AwaitCancel(s, p, 2)
  ELSE End(ReadPicoPort(s, p.id[1]), p.id, "ok")

WriteFileBody(s, p) ==
  LET s1 == StartReader(s, <<p.id[1], "scan", 0>>, NoMarker, None) IN
  IF Busy(s1) THEN End(Emit(s1, Ev("busy", p.id, "getWriter")), p.id, "threw")
  ELSE LET s2 == PrepareWritablePort(s1, p.id) IN
       IF s2.writer = None THEN WriteFileTail(s2, p)
       ELSE Write(s2, [p EXCEPT !.todo = WriteFileWrites(s.editor)], Ctl(CtrlA))

\* loadTempPy: await pico.clearpicoport(marker), scan n of the two
LoadScan(s, p, n) ==
  LET id == <<p.id[1], "scan", n>>
      mark == IF n = 1 THEN OK ELSE EOT
  IN IF ~CanRead(s)
     THEN Put(s, [p EXCEPT !.pc = IF n = 1 THEN "sdone1" ELSE "sdone2", !.res = <<>>])
     ELSE IF s.rlock # None THEN Put(StartReader(s, id, mark, p.id), [p EXCEPT !.pc = "sthrew"])
     ELSE StartReader(Put(s, [p EXCEPT !.pc = "scan"]), id, mark, p.id)

LoadBody(s, p) ==
  IF Busy(s) THEN End(Emit(s, Ev("busy", p.id, "getWriter")), p.id, "threw")
  ELSE LET s1 == PrepareWritablePort(s, p.id) IN
       IF s1.writer = None THEN End(ReadPicoPort(s1, p.id[1]), p.id, "ok")
       ELSE Write(s1, [p EXCEPT !.todo = LoadWrites], Ctl(CtrlA))

\* after the second scan: CTRL+B, editor.setValue(result), readpicoport()
LoadFinish(s, p) ==
  LET s1 == SendCommand(s, p.id[1], Ctl(CtrlB))
      s2 == Emit([s1 EXCEPT !.editor = p.res], Ev("setValue", p.id, "result"))
  IN End(ReadPicoPort(s2, p.id[1]), p.id, "ok")

\* the operation keeps the writer after its last write
AfterWritesKeepLock(s, p) ==
  CASE p.id[2] = "wf" -> WriteFileTail(SendCommand(s, p.id[1], Ctl(CtrlB)), p)
    [] p.id[2] = "load" -> LoadScan(s, p, 1)
    [] OTHER -> End(s, p.id, "ok")

\* the code after the last write of an operation has completed
AfterWrites(s, p) ==
  CASE p.id[2] = "wf" -> WriteFileTail(SendCommand(ReleaseLock(s), p.id[1], Ctl(CtrlB)), p)
    [] p.id[2] = "load" -> LoadScan(ReleaseLock(s), p, 1)
    [] OTHER -> End(ReleaseLock(s), p.id, "ok")

\* a write has completed: the next write, or the code after the writes
WriteNext(s, p) ==
  IF p.todo = <<>> THEN AfterWrites(s, p)
  ELSE Write(s, [p EXCEPT !.todo = Tail(@)], Head(p.todo))

----------------------------------------------------------------------------
(* Inputs *)

\* what the device may deliver in one read
DeviceChunks == {OK, <<97, CtrlD>>, <<97>>}

\* what the user may type into the editor
Contents == {<<97, LF>>}

Init ==
  /\ port = "closed"
  /\ rfatal = FALSE
  /\ wfatal = FALSE
  /\ rstream = "none"
  /\ rlock = None
  /\ rstate = <<>>
  /\ wlock = None
  /\ wstate = <<>>
  /\ wq = <<>>
  /\ wire = <<>>
  /\ picoport = FALSE
  /\ picoreader = None
  /\ writer = None
  /\ procs = {}
  /\ editor = <<>>
  /\ chooser = FALSE
  /\ ev = <<>>
  /\ nops = 0
  /\ nkeys = 0
  /\ nchunks = 0
  /\ nerrs = 0
  /\ sBytes = <<>>
  /\ sIn = <<>>
  /\ sMarks = <<>>
  /\ sOut = <<>>
  /\ sAcc = <<>>
  /\ sDec = <<>>
  /\ sPc = "idle"
  /\ sLease = FALSE
  /\ fContent = <<>>
  /\ fTodo = <<>>
  /\ fWire = <<>>
  /\ conn = NoCalls

\* the page takes a click or a key only between tasks, and not while the port
\* chooser is showing
UserMay == ~Ready(Cur) /\ ~chooser
Click == [Cur EXCEPT !.nops = @ + 1]

----------------------------------------------------------------------------
(* User requests *)

\* Connect button while no port is held: openpicoport(); readpicoport()
Connect ==
  /\ UserMay /\ nops < MaxOps /\ ~picoport
  /\ \E viaPrompt \in BOOLEAN :
       LET tx == nops + 1
           p == NewProc(<<tx, "open", 0>>, "req")
       IN IF viaPrompt
          THEN Commit(Put([Click EXCEPT !.chooser = TRUE], p))
          ELSE Commit(OpenCall(ReadPicoPort([Click EXCEPT !.picoport = TRUE], tx), p))

\* disconnectFromPort up to its first await
DisconnectFromPort(s, tx) ==
  LET p == [NewProc(<<tx, "disc", 0>>, "cancel1") EXCEPT !.loc = s.picoport]
      s1 == [s EXCEPT !.picoport = FALSE]
  IN IF s1.picoreader # None THEN AwaitCancel(s1, p, 1) ELSE DiscClose(s1, p)

\* Connect button while a port is held: disconnectFromPort()
Disconnect ==
  /\ UserMay /\ nops < MaxOps /\ picoport
  /\ Commit(DisconnectFromPort(Click, nops + 1))

\* disconnectFromPort() called while the session is disconnected: no port is
\* held and no connect or disconnect is in progress (the call may also come
\* after the last of the MaxOps clicks)
DisconnectAgain ==
  /\ UserMay /\ nops <= MaxOps /\ ~picoport
  /\ ~\E p \in procs : p.id[2] \in {"open", "disc"}
  /\ Commit(DisconnectFromPort(Emit(Click, Ev("call", <<nops + 1, "disc", 0>>, "again")),
                               nops + 1))

\* Save button: pico.writeFile('temp.py', editor.getValue())
ClickSave ==
  /\ UserMay /\ nops < MaxOps
  /\ LET p == NewProc(<<nops + 1, "wf", 0>>, "cancel1") IN
     IF picoreader # None THEN Commit(AwaitCancel(Click, p, 1))
     ELSE Commit(WriteFileBody(Click, p))

\* Load button: loadTempPy(editor)
ClickLoad ==
  /\ UserMay /\ nops < MaxOps
  /\ LET p == NewProc(<<nops + 1, "load", 0>>, "cancel1") IN
     IF picoreader # None THEN Commit(AwaitCancel(Click, p, 1))
     ELSE Commit(LoadBody(Click, p))

\* Run button: pico.runCode(editor.getValue())
ClickRun ==
  /\ UserMay /\ nops < MaxOps
  /\ LET p == NewProc(<<nops + 1, "run", 0>>, "w") IN
     IF Busy(Click) THEN Commit(End(Emit(Click, Ev("busy", p.id, "getWriter")), p.id, "threw"))
     ELSE LET s == PrepareWritablePort(Click, p.id) IN
          IF s.writer = None THEN Commit(End(s, p.id, "ok"))
          ELSE Commit(Write(s, [p EXCEPT !.todo = RunCodeWrites(editor)], Ctl(CtrlA)))

\* Stop button: pico.sendCommand('\x03')
ClickStop ==
  /\ UserMay /\ nops < MaxOps
  /\ Commit(SendCommand(Click, nops + 1, Ctl(CtrlC)))

\* a key typed in the terminal: the onData handler
Keystroke ==
  /\ UserMay /\ nkeys < MaxKeys
  /\ LET s == [Cur EXCEPT !.nkeys = @ + 1]
         id == <<0, "key", 0>>
     IN IF ~CanWrite(s) THEN Commit(Emit(s, Ev("key", id, "nowritable")))
        ELSE IF s.wlock # None THEN Commit(Emit(s, Ev("busy", id, "getWriter")))
        ELSE Commit(Emit([s EXCEPT !.wq = Append(@, [tx |-> 0, tok |-> Tok("key", <<>>), w |-> None])],
                         Ev("write", id, "key")))

\* the user types a program into the editor
EditText ==
  /\ UserMay /\ editor \notin Contents
  /\ \E c \in Contents : Commit([Cur EXCEPT !.editor = c])

----------------------------------------------------------------------------
(* Transport and terminal events *)

\* navigator.serial.requestPort settles
RequestPortDone ==
  /\ ~Ready(Cur) /\ chooser
  /\ \E p \in procs : /\ p.pc = "req"
       /\ \E granted \in BOOLEAN :
            LET s == [Cur EXCEPT !.chooser = FALSE, !.picoport = IF granted THEN TRUE ELSE @]
            IN IF granted THEN Commit(OpenCall(s, p)) ELSE Commit(End(s, p.id, "ok"))

\* picoport.open(options) settles
OpenDone ==
  /\ ~Ready(Cur)
  /\ \E p \in procs : /\ p.pc = "open"
       /\ \E opened \in BOOLEAN :
            IF opened
            THEN Commit(End(Emit([Cur EXCEPT !.port = "opened", !.rfatal = FALSE, !.wfatal = FALSE],
                                 Ev("term", p.id, "connected")), p.id, "ok"))
            ELSE /\ nerrs < MaxErrs
                 /\ Commit(End(MarkDisconnected(Emit(Emit([Cur EXCEPT !.port = "closed", !.nerrs = @ + 1],
                                                          Ev("open", p.id, "failed")),
                                                     Ev("term", p.id, "error"))), p.id, "ok"))

\* localPort.close() is fulfilled
CloseDone ==
  /\ ~Ready(Cur)
  /\ \E p \in procs : /\ p.pc = "close"
       /\ Commit(End(MarkDisconnected([Cur EXCEPT !.port = "closed"]), p.id, "ok"))

\* the code after an awaited picoreader.cancel()
AfterCancel(s, p) ==
  CASE p.id[2] = "disc" -> DiscClose(s, p)
    [] p.id[2] = "load" -> LoadBody(s, p)
    [] p.id[2] = "wf" /\ p.pc \in {"cancel1", "cancel1r"} -> WriteFileBody(s, p)
    [] OTHER -> End(ReadPicoPort(s, p.id[1]), p.id, "ok")

\* the transport has discarded its input: reader.cancel() is fulfilled
CancelDone ==
  /\ ~Ready(Cur)
  /\ \E p \in procs : /\ p.pc \in {"cancel1", "cancel2"}
       /\ Commit(AfterCancel(CancelSettled(Cur), p))

\* the loop goes on to the next read after the marker
ScanChunkReadsOn(s, p, text) ==
  NextRead(s, [p EXCEPT !.res = ScanStep(p.res, p.tgt, text).res])

\* clearpicoport's loop body for one chunk: stop at the marker or go on
ScanChunk(s, p, text) ==
  LET n == ScanStep(p.res, p.tgt, text) IN
  IF n.stop THEN Finish(s, [p EXCEPT !.res = n.res])
  ELSE NextRead(s, [p EXCEPT !.res = n.res])

\* a read is fulfilled with a chunk: decode, console.log('yield:', chunk),
\* yield, loop body
DeliverChunk ==
  /\ ~Ready(Cur) /\ nchunks < MaxChunks /\ port = "opened"
  /\ \E p \in procs : /\ p.pc = "read" /\ rstate[p.rd] = "live"
       /\ \E c \in DeviceChunks :
            LET d == Decode(p.dec, c)
                s == [Cur EXCEPT !.nchunks = @ + 1]
                q == [p EXCEPT !.dec = d.dec]
                y == Emit(s, [Ev("yield", p.id, "chunk") EXCEPT !.y = d.out])
            IN IF p.id[2] = "pass"
               THEN Commit(Put(Emit(y, Ev("term", p.id, "data")), [q EXCEPT !.pc = "term"]))
               ELSE Commit(ScanChunk(y, q, d.out))

\* the readable end fails: pending reads are rejected
ReadError ==
  /\ ~Ready(Cur) /\ nerrs < MaxErrs /\ port = "opened"
  /\ rstream = "live" /\ rlock # None
  /\ \E fatal \in BOOLEAN :
       Commit([Cur EXCEPT !.nerrs = @ + 1, !.rfatal = fatal, !.rstream = "none",
                          !.rstate[rlock] = "errored", !.rlock = None,
                          !.procs = {IF p.pc = "read" /\ p.rd = rlock
                                     THEN [p EXCEPT !.pc = "rerr"] ELSE p : p \in @}])

\* the head of the write queue has been sent
WriteDone ==
  /\ ~Ready(Cur) /\ wq # <<>>
  /\ LET h == Head(wq)
         s == [Cur EXCEPT !.wq = Tail(@), !.wire = Append(@, <<h.tx, h.tok>>)]
     IN IF h.w = None THEN Commit(s) ELSE Commit(WriteNext(s, Proc(s, h.w)))

\* the writable end fails: every queued write is rejected
WriteError ==
  /\ ~Ready(Cur) /\ nerrs < MaxErrs /\ wq # <<>>
  /\ \E fatal \in BOOLEAN :
       Commit([Cur EXCEPT !.nerrs = @ + 1, !.wfatal = fatal, !.wq = <<>>,
                          !.wstate = [w \in DOMAIN @ |-> IF w = wlock THEN "errored" ELSE @[w]],
                          !.wlock = None,
                          !.procs = {IF p.pc = "w" THEN [p EXCEPT !.pc = "werr"] ELSE p : p \in @}])

\* the terminal calls back after term.write / term.writeln
TermDone ==
  /\ ~Ready(Cur)
  /\ \E p \in procs : /\ p.pc \in {"term", "errterm"}
       /\ IF p.pc = "term" THEN Commit(NextRead(Cur, p)) ELSE Commit(Finish(Cur, p))

\* a continuation whose promise is already settled
Microtask ==
  \E p \in procs :
    /\ p.pc \in ReadyPcs
    /\ CASE p.pc = "rdone" -> Commit(Finish(Cur, p))
         [] p.pc = "rerr" -> Commit(Put(Emit(Cur, Ev("term", p.id, "error")), [p EXCEPT !.pc = "errterm"]))
         [] p.pc = "werr" -> Commit(End(Cur, p.id, "threw"))
         [] p.pc = "sdone1" -> Commit(LoadScan(Cur, p, 2))
         [] p.pc = "sdone2" -> Commit(LoadFinish(Cur, p))
         [] p.pc = "sthrew" -> Commit(End(Cur, p.id, "threw"))
         [] OTHER -> Commit(AfterCancel(Cur, p))

Next ==
  \/ Connect \/ Disconnect \/ ClickSave \/ ClickLoad \/ ClickRun \/ ClickStop
  \/ Keystroke \/ EditText
  \/ RequestPortDone \/ OpenDone \/ CloseDone \/ CancelDone
  \/ DeliverChunk \/ ReadError \/ WriteDone \/ WriteError \/ TermDone
  \/ Microtask

Spec == Init /\ [][Next]_vars

\* the session with callers of disconnectFromPort other than the button
NextDisc == Next \/ DisconnectAgain

SpecDisc == Init /\ [][NextDisc]_vars

----------------------------------------------------------------------------
(* Scans over a given device stream: the bytes, cut into the chunks that the *)
(* reads deliver, are consumed by consecutive clearpicoport calls            *)

ScanBytes == {ChO, ChK, CtrlD, 97, 195, 169}

RECURSIVE SeqsUpTo(_, _)
SeqsUpTo(S, n) ==
  IF n = 0 THEN {<<>>}
  ELSE LET shorter == SeqsUpTo(S, n - 1) IN
       shorter \cup {Append(q, x) : q \in {r \in shorter : Len(r) = n - 1}, x \in S}

\* every way of cutting bytes into non-empty chunks
RECURSIVE Chunkings(_)
Chunkings(bytes) ==
  IF bytes = <<>> THEN {<<>>}
  ELSE UNION {{<<SubSeq(bytes, 1, k)>> \o rest :
                 rest \in Chunkings(SubSeq(bytes, k + 1, Len(bytes)))} :
              k \in 1..Len(bytes)}

RECURSIVE Flatten(_)
Flatten(chunks) == IF chunks = <<>> THEN <<>> ELSE Head(chunks) \o Flatten(Tail(chunks))

InitScan ==
  /\ port = "closed" /\ rfatal = FALSE /\ wfatal = FALSE
  /\ rstream = "none" /\ rlock = None /\ rstate = <<>>
  /\ wlock = None /\ wstate = <<>> /\ wq = <<>> /\ wire = <<>>
  /\ picoport = FALSE /\ picoreader = None /\ writer = None
  /\ procs = {} /\ editor = <<>> /\ chooser = FALSE /\ ev = <<>>
  /\ nops = 0 /\ nkeys = 0 /\ nchunks = 0 /\ nerrs = 0
  /\ sBytes \in SeqsUpTo(ScanBytes, MaxBytes)
  /\ sIn \in Chunkings(sBytes)
  /\ sMarks \in {<<OK>>, <<EOT>>, <<OK, EOT>>, <<NoMarker>>}
  /\ sOut = <<>>
  /\ sAcc = <<>>
  /\ sDec = <<>>
  /\ sPc = "scan"
  /\ sLease = TRUE
  /\ fContent = <<>>
  /\ fTodo = <<>>
  /\ fWire = <<>>
  /\ conn = NoCalls

\* the running scan releases its reader and returns res: the next scan takes
\* a reader and starts with a new decoder
ScanReturns(res) ==
  /\ sOut' = Append(sOut, res)
  /\ sAcc' = <<>>
  /\ sDec' = <<>>
  /\ sPc' = IF Len(sOut) + 1 = Len(sMarks) THEN "done" ELSE "scan"
  /\ sLease' = (Len(sOut) + 1 < Len(sMarks))

\* the marker of the running scan
ScanMark == sMarks[Len(sOut) + 1]

\* a read of the running scan is fulfilled with the next chunk
ScanRead ==
  /\ sPc = "scan" /\ sIn # <<>>
  /\ LET d == Decode(sDec, Head(sIn))
         n == ScanStep(sAcc, ScanMark, d.out)
     IN /\ sIn' = Tail(sIn)
        /\ IF n.stop THEN ScanReturns(n.res)
           ELSE /\ sAcc' = n.res
                /\ sDec' = d.dec
                /\ UNCHANGED <<sOut, sPc, sLease>>
  /\ UNCHANGED <<sBytes, sMarks, mainVars, fileVars, portVars>>

\* the stream ends after its last chunk: the read is fulfilled with done
ScanEof ==
  /\ sPc = "scan" /\ sIn = <<>>
  /\ ScanReturns(sAcc)
  /\ UNCHANGED <<sBytes, sIn, sMarks, mainVars, fileVars, portVars>>

NextScan == ScanRead \/ ScanEof

SpecScan == InitScan /\ [][NextScan]_vars

----------------------------------------------------------------------------
(* writeFile over a given content, on a connection that takes every write *)

FileBytes == {97, LF, CR}

\* every write of writeFile and of its sendCommand, in program order
FileWrites(content) == <<Ctl(CtrlA)>> \o WriteFileWrites(content) \o <<Ctl(CtrlB)>>

InitFile ==
  /\ port = "closed" /\ rfatal = FALSE /\ wfatal = FALSE
  /\ rstream = "none" /\ rlock = None /\ rstate = <<>>
  /\ wlock = None /\ wstate = <<>> /\ wq = <<>> /\ wire = <<>>
  /\ picoport = FALSE /\ picoreader = None /\ writer = None
  /\ procs = {} /\ editor = <<>> /\ chooser = FALSE /\ ev = <<>>
  /\ nops = 0 /\ nkeys = 0 /\ nchunks = 0 /\ nerrs = 0
  /\ sBytes = <<>> /\ sIn = <<>> /\ sMarks = <<>> /\ sOut = <<>>
  /\ sAcc = <<>> /\ sDec = <<>> /\ sPc = "idle" /\ sLease = FALSE
  /\ fContent \in SeqsUpTo(FileBytes, MaxBytes)
  /\ fTodo = FileWrites(fContent)
  /\ fWire = <<>>
  /\ conn = NoCalls

\* await this.write(...) is fulfilled: the write has reached the device
FileWriteDone ==
  /\ fTodo # <<>>
  /\ fWire' = Append(fWire, Head(fTodo))
  /\ fTodo' = Tail(fTodo)
  /\ UNCHANGED <<fContent, mainVars, scanVars, portVars>>

NextFile == FileWriteDone

SpecFile == InitFile /\ [][NextFile]_vars

----------------------------------------------------------------------------
(* Read leases, transactions and the events of a step *)

\* process p is inside its read loop on a reader whose stream is live: either
\* its read is pending on that reader, or it is between two reads and the
\* reader it acquired is live
HoldsReadLease(p) ==
  /\ p.id[2] \in {"pass", "scan"}
  /\ \/ p.pc = "read" /\ rstate[p.rd] = "live"
     \/ p.pc \in {"term", "errterm"} /\ rstate[p.id] = "live"

ReadLeases == {p \in procs : HoldsReadLease(p)}
PassLeases == {p \in ReadLeases : p.id[2] = "pass"}

\* the last step had an event e of an operation of kind k with detail x
Did(e, k, x) == \E i \in DOMAIN ev : ev[i].e = e /\ ev[i].k = k /\ ev[i].x = x

\* the connection is open and its read end can be acquired
ConnOpen == picoport /\ port = "opened" /\ ~rfatal

----------------------------------------------------------------------------
(* Claims *)

\* C1: at most one read lease is active; the passthrough loop and a scan never
\* hold the read end at the same time
C1_OneReadLease == Cardinality(ReadLeases) <= 1

C3_ResumeOnEveryExit ==
  \A i \in DOMAIN ev :
    (/\ ev[i].e = "end" /\ ev[i].k \in {"wf", "load"} /\ ConnOpen
     /\ ~\E j \in DOMAIN ev : ev[j].e = "busy" /\ ev[j].tx = ev[i].tx)
      => \E p \in PassLeases : p.id[1] = ev[i].tx

\* C4: a finished scan for a marker that occurs in the byte stream has
\* returned the text decoded from the bytes before the marker's first
\* occurrence, whatever the chunks
C4_ScanReturnsPrefix ==
  (Len(sOut) >= 1 /\ sMarks[1] # NoMarker /\ Includes(sBytes, sMarks[1]))
    => sOut[1] = DecodeAll(BeforeTarget(sBytes, sMarks[1]))

\* C5: over a stream "OK" + X + 0x04, the scan for "OK" returns the empty
\* text and the scan for 0x04 that follows it returns X, whatever the chunks
C5_HandOverKeepsBytes ==
  (/\ sMarks = <<OK, EOT>> /\ Len(sOut) = 2 /\ Len(sBytes) >= 3
   /\ SubSeq(sBytes, 1, 2) = OK /\ sBytes[Len(sBytes)] = CtrlD
   /\ ~Includes(SubSeq(sBytes, 3, Len(sBytes) - 1), EOT))
    => sOut = <<<<>>, DecodeAll(SubSeq(sBytes, 3, Len(sBytes) - 1))>>

\* C6: when sendCommand, runCode, writeFile or loadTempPy ends, by returning
\* or by throwing, the writer it acquired has been released
C6_WriterReleasedAtEnd ==
  \A i \in DOMAIN ev :
    (ev[i].e = "end" /\ ev[i].k \in {"send", "run", "wf", "load"})
      => LET w == <<ev[i].tx, ev[i].k, 0>> IN
         w \in DOMAIN wstate => wstate[w] = "released"

\* C7: a send that finds the write end locked (the Stop button's sendCommand,
\* runCode, writeFile, loadTempPy, a keystroke) writes nothing and leaves the
\* leases and the session as they were
C7_BusyChangesNothing ==
  [][(\E i \in DOMAIN ev' : ev'[i].e = "busy")
       => UNCHANGED <<wlock, wstate, writer, wq, wire, port, picoport,
                      picoreader, rlock, rstate>>]_vars

\* C8: the tokens of one transaction reach the device next to each other:
\* nothing of a keystroke or of another operation lies between two of them
C8_TransactionContiguous ==
  \A i, j, k \in DOMAIN wire :
    (i < j /\ j < k /\ wire[i][1] = wire[k][1] /\ wire[i][1] # 0)
      => wire[j][1] = wire[i][1]

\* C9: when the open of a connect request succeeds, a passthrough read lease
\* is active
C9_StreamingAfterOpen ==
  Did("term", "open", "connected") => PassLeases # {}

\* C10: when the open of a connect request fails, the failure is reported, no
\* port reference, read lease or write lease is left, and open is not called
\* again
C10_OpenFailureDisconnects ==
  (Did("open", "open", "failed") \/ Did("open", "open", "rejected"))
    => /\ Did("term", "open", "error")
       /\ ~picoport
       /\ ReadLeases = {}
       /\ wlock = None
       /\ ~Did("open", "open", "called")

\* C11: when disconnectFromPort has ended, no reader holds the read end and no
\* writer holds the write end
C11_DisconnectReleasesLeases ==
  (\E i \in DOMAIN ev : ev[i].e = "end" /\ ev[i].k = "disc")
    => ReadLeases = {} /\ rlock = None /\ wlock = None

\* C12: when close() is rejected in disconnectFromPort, the error is written to
\* the terminal and the operation still marks the session disconnected and
\* returns normally
C12_CloseErrorLogged ==
  Did("close", "disc", "rejected")
    => /\ Did("term", "disc", "error")
       /\ Did("term", "none", "disconnected")
       /\ Did("end", "disc", "ok")
       /\ ~picoport

\* C12 witness: a close of disconnectFromPort was rejected
C12_Witness == Did("close", "disc", "rejected") /\ port = "opened"

C14_ReadErrorDisconnects ==
  [][\A p \in procs :
       (/\ p.id[2] = "pass" /\ p.pc = "errterm" /\ p.rd = p.id
        /\ ~\E q \in procs' : q.id = p.id)
         => ~picoport' /\ rlock' = None /\ wlock' = None]_vars

\* C15: when a scan of loadTempPy ends after a read on its reader was
\* rejected, the reader is released and loadTempPy sees the scan fail instead
\* of return a text
C15_ScanErrorSurfaced ==
  [][\A p \in procs :
       (/\ p.id[2] = "scan" /\ p.par # None /\ p.pc = "errterm" /\ p.rd = p.id
        /\ ~\E q \in procs' : q.id = p.id)
         => /\ rlock' # p.id
            /\ \E q \in procs' : q.id = p.par /\ q.pc = "sthrew"]_vars

\* a writeFile or loadTempPy is in flight
Transactions == {p \in procs : p.id[2] \in {"wf", "load"}}

\* C16: a writeFile or loadTempPy requested while another one is in flight
\* fails as busy, cancels no reader, writes nothing and leaves the leases as
\* they were
C16_BusyTransactionRejected ==
  [][(/\ Transactions # {}
      /\ nops' = nops + 1
      /\ \/ \E p \in procs' : p.id[1] = nops' /\ p.id[2] \in {"wf", "load"}
         \/ \E i \in DOMAIN ev' : ev'[i].tx = nops' /\ ev'[i].k \in {"wf", "load"})
       => /\ \E i \in DOMAIN ev' : ev'[i].e = "busy" /\ ev'[i].tx = nops'
          /\ ~\E i \in DOMAIN ev' : ev'[i].e \in {"cancel", "write"}
          /\ UNCHANGED <<rstream, rlock, rstate, wlock, wq, picoreader, writer>>]_vars

\* C17: sendCommand, runCode, writeFile or loadTempPy requested while no port
\* is held ends by throwing, not by returning
C17_WriterUnavailableSurfaced ==
  [][\A i \in DOMAIN ev' :
       (/\ ~picoport /\ nops' = nops + 1
        /\ ev'[i].e = "end" /\ ev'[i].tx = nops'
        /\ ev'[i].k \in {"send", "run", "wf", "load"})
         => ev'[i].x = "threw"]_vars

\* the positions of the line feeds of a content, and the k-th of them
LFAt(c) == {i \in 1..Len(c) : c[i] = LF}
NthLF(c, k) == CHOOSE i \in LFAt(c) : Cardinality({j \in LFAt(c) : j <= i}) = k

\* a text without the line terminators at its end
StripEnd(l) ==
  LET n == CHOOSE n \in 0..Len(l) :
             /\ n = 0 \/ l[n] \notin {CR, LF}
             /\ \A j \in (n + 1)..Len(l) : l[j] \in {CR, LF}
  IN SubSeq(l, 1, n)

\* the line-write instructions a content asks for: one for each line that ends
\* with a line feed, and one for a non-empty rest after the last line feed
ExpectedLineWrites(c) ==
  LET n == Cardinality(LFAt(c))
      from(k) == IF k = 1 THEN 1 ELSE NthLF(c, k - 1) + 1
      rest == StripEnd(SubSeq(c, from(n + 1), Len(c)))
  IN [k \in 1..n |->
        Tok("fwrite", Append(StripEnd(SubSeq(c, from(k), NthLF(c, k) - 1)), LF))]
     \o (IF rest # <<>> THEN <<Tok("fwriteLast", rest)>> ELSE <<>>)

\* C18: after CTRL+A and the file-open instruction, writeFile has written one
\* instruction for each line that ends with a line feed, in order, one for a
\* non-empty rest, then CTRL+D and CTRL+B
C18_WriteFileInstructions ==
  fTodo = <<>>
    => fWire = <<Ctl(CtrlA), Tok("open", <<>>)>> \o ExpectedLineWrites(fContent)
                 \o <<Ctl(CtrlD), Ctl(CtrlB)>>

\* C18 witness: writeFile has finished a content of two lines that ends with a
\* line feed, with two line-write instructions
C18_Witness ==
  /\ fContent = <<97, LF, 97, LF>> /\ fTodo = <<>>
  /\ fWire = <<Ctl(CtrlA), Tok("open", <<>>), Tok("fwrite", <<97, LF>>),
               Tok("fwrite", <<97, LF>>), Ctl(CtrlD), Ctl(CtrlB)>>

\* C19: a scan without a marker that has read the end of the stream has
\* returned the decoded text of the whole stream and holds no reader
C19_DrainScanReturnsAll ==
  (sMarks = <<NoMarker>> /\ sPc = "done")
    => /\ sOut = <<Decode(<<>>, sBytes).out>>
       /\ sIn = <<>>
       /\ ~sLease

\* C19 witness: a scan without a marker has returned a text that came in three
\* chunks, one of them ending inside a character of two bytes
C19_Witness ==
  /\ sMarks = <<NoMarker>> /\ sPc = "done"
  /\ sBytes = <<97, 195, 169, ChK>>
  /\ sOut = <<<<97, 233, ChK>>>>

\* a writeFile, loadTempPy or runCode is in flight
Executing == {p \in procs : p.id[2] \in {"wf", "load", "run"}}

\* C20: while a transaction is in flight no passthrough read lease is active,
\* and while the connection is open, with no transaction, connect or
\* disconnect in flight, exactly one passthrough read lease is active
C20_StreamingXorExecuting ==
  /\ Executing # {} => PassLeases = {}
  /\ (/\ ConnOpen /\ Executing = {}
      /\ ~\E p \in procs : p.id[2] \in {"open", "disc"})
       => Cardinality(PassLeases) = 1

\* C21: a scan or a passthrough that acquires the read end never finds it
\* locked by a reader that has not been released yet
C21_HandOffOrdered ==
  ~\E i \in DOMAIN ev : ev[i].e = "noreader" /\ ev[i].x = "locked"

\* C22 as stated: every write of runCode, writeFile and loadTempPy is made
\* under a write lease acquired for that write, and an operation that holds
\* the write end is suspended on a write
C22_LeasePerWrite ==
  /\ \A i \in DOMAIN ev :
       (ev[i].e = "write" /\ ev[i].k \in {"run", "wf", "load"})
         => \E j \in 1..(i - 1) : /\ ev[j].e = "getWriter"
                                  /\ ev[j].tx = ev[i].tx /\ ev[j].k = ev[i].k
  /\ \A p \in procs : wlock = p.id => p.pc = "w"

\* C22 amended: every write of an operation is made under the live write
\* lease of that operation, acquired once before its first write, and an
\* operation that holds the write end with its writer in Pico.writer is
\* suspended on a write
C22_LeasePerOperation ==
  /\ \A i \in DOMAIN ev :
       (ev[i].e = "write" /\ ev[i].k \in {"run", "wf", "load", "send"})
         => LET w == <<ev[i].tx, ev[i].k, 0>> IN
            /\ wlock = w /\ writer = w /\ wstate[w] = "live"
            /\ (ev[i].x # "ctrlA" /\ ev[i].k # "send")
                 => ~\E j \in DOMAIN ev : ev[j].e = "getWriter"
  /\ \A p \in procs : (wlock = p.id /\ writer = p.id) => p.pc = "w"

\* C22 witness: runCode has queued its second write under the lease it took
\* for the first one
C22_Witness ==
  \E p \in procs : /\ p.id[2] = "run" /\ p.pc = "w" /\ wlock = p.id
                   /\ Did("write", "run", "text")
                   /\ ~Did("getWriter", "run", "ok")
                   /\ \E i \in DOMAIN wire : wire[i] = <<p.id[1], Ctl(CtrlA)>>

\* C23: when a scan for a marker is given a chunk whose text contains the
\* marker, it issues no further read, its reader is released, and it returns
\* to loadTempPy the text of the earlier chunks followed by the part of this
\* chunk before the marker's first occurrence
C23_MarkerStopsScan ==
  [][\A p \in procs : \A i \in DOMAIN ev' :
       (/\ p.id[2] = "scan" /\ p.tgt # NoMarker /\ p.pc = "read"
        /\ ev'[i].e = "yield" /\ ev'[i].tx = p.id[1] /\ ev'[i].k = "scan"
        /\ Includes(ev'[i].y, p.tgt))
         => /\ ~\E q \in procs' : q.id = p.id
            /\ rlock' # p.id
            /\ p.id \in DOMAIN rstate' => rstate'[p.id] = "released"
            /\ \E j \in DOMAIN ev' : /\ j > i /\ ev'[j].e = "end"
                                     /\ ev'[j].k = "scan" /\ ev'[j].x = "ok"
            /\ \E q \in procs' :
                 /\ q.id = p.par /\ q.pc \in {"sdone1", "sdone2"}
                 /\ q.res = p.res \o BeforeTarget(ev'[i].y, p.tgt)]_vars

\* C23 witness: the scan for "OK" has returned the text of an earlier chunk
\* after a chunk that contained the marker, and its reader is released
C23_Witness ==
  /\ \E i \in DOMAIN ev : ev[i].e = "yield" /\ ev[i].k = "scan" /\ ev[i].y = OK
  /\ \E q \in procs : q.id[2] = "load" /\ q.pc = "sdone1" /\ q.res = <<97>>
  /\ rlock = None /\ picoreader = None

\* the reader that process p acquired has had its stream cancelled
Cancelled(p) ==
  p.id[2] \in {"pass", "scan"} /\ p.id \in DOMAIN rstate /\ rstate[p.id] = "closed"

\* C24: a passthrough or a scan whose reader was cancelled writes no chunk to
\* the terminal any more and has released its reader when it ends; every
\* cancel is made on the reader of a loop in flight
C24_CancelEndsScan ==
  [][/\ \A p \in procs :
          Cancelled(p)
            => /\ ~\E i \in DOMAIN ev' : /\ ev'[i].e = "term" /\ ev'[i].x = "data"
                                         /\ ev'[i].tx = p.id[1] /\ ev'[i].k = p.id[2]
               /\ (~\E q \in procs' : q.id = p.id)
                    => (p.id \in DOMAIN rstate' => rstate'[p.id] = "released")
     /\ \A i \in DOMAIN ev' :
          ev'[i].e = "cancel"
            => \E p \in procs \cup procs' : /\ p.id[1] = ev'[i].tx
                                            /\ p.id[2] = ev'[i].k]_vars

\* the tokens that the operations of transaction tx have written so far, in
\* order: those the device has received, then those still queued
RECURSIVE TokensOf(_, _)
TokensOf(q, tx) ==
  IF q = <<>> THEN <<>>
  ELSE (IF Head(q)[1] = tx THEN <<Head(q)[2]>> ELSE <<>>) \o TokensOf(Tail(q), tx)

Written(tx) == TokensOf(wire \o [i \in DOMAIN wq |-> <<wq[i].tx, wq[i].tok>>], tx)

\* CTRL+A, a payload without control bytes, CTRL+D, CTRL+B
RawSequence(toks) ==
  /\ Len(toks) >= 4
  /\ toks[1] = Ctl(CtrlA)
  /\ toks[Len(toks) - 1] = Ctl(CtrlD)
  /\ toks[Len(toks)] = Ctl(CtrlB)
  /\ \A i \in 2..(Len(toks) - 2) : toks[i].t # "ctl"

\* C25: when runCode, writeFile or loadTempPy returns on an open connection
\* that had no transport error, the transaction has written CTRL+A, its
\* payload, CTRL+D and CTRL+B, in this order and each once; loadTempPy writes
\* its CTRL+B when none of its scans is running any more
C25_ControlSequence ==
  /\ \A i \in DOMAIN ev :
       (/\ ev[i].e = "end" /\ ev[i].k \in {"run", "wf", "load"} /\ ev[i].x = "ok"
        /\ picoport /\ port = "opened" /\ nerrs = 0)
         => RawSequence(Written(ev[i].tx))
  /\ \A i \in DOMAIN ev :
       (/\ ev[i].e = "write" /\ ev[i].k = "send" /\ ev[i].x = "ctrlB"
        /\ \E j \in DOMAIN ev : ev[j].e = "setValue" /\ ev[j].tx = ev[i].tx)
         => ~\E p \in procs : p.id[1] = ev[i].tx /\ p.id[2] = "scan"

\* C26: open() is never called on a port that is open, opening or closing,
\* nor while a disconnectFromPort is in flight
C26_OpenOnlyWhenClosed ==
  /\ ~Did("open", "open", "rejected")
  /\ Did("open", "open", "called") => ~\E p \in procs : p.id[2] = "disc"

\* a scan for a marker is suspended on a read of a live reader
MarkerWait(p) ==
  p.id[2] = "scan" /\ p.tgt # NoMarker /\ p.pc = "read" /\ rstate[p.rd] = "live"

\* C27: a scan for a marker that waits for a chunk goes on waiting, with
\* loadTempPy suspended on it, the read end locked by its reader and no
\* passthrough of the transaction started, in every step that neither gives
\* it a chunk, nor cancels its reader, nor is a failure of the readable end
C27_NoTimeout ==
  [][\A p \in procs :
       MarkerWait(p)
         => \/ /\ p \in procs'
               /\ rlock' = p.rd /\ rstate'[p.rd] = "live"
               /\ \E q \in procs' : q.id = p.par /\ q.pc = "scan"
               /\ ~\E q \in procs' : q.id = <<p.id[1], "pass", 0>>
            \/ \E i \in DOMAIN ev' : /\ ev'[i].e \in {"yield", "cancel"}
                                     /\ ev'[i].tx = p.id[1] /\ ev'[i].k = "scan"
            \/ nerrs' = nerrs + 1 /\ rstate'[p.rd] = "errored"]_vars

\* the bytes that the reads of the scans have delivered so far
Consumed == SubSeq(sBytes, 1, Len(sBytes) - Len(Flatten(sIn)))

\* C28: while the first scan runs, the text of the chunks it was given so far,
\* put together, is the text decoded from the bytes delivered so far taken as
\* one piece, and the bytes of a character cut by the last chunk boundary
\* are kept for the next chunk
C28_DecoderCarried ==
  (sPc = "scan" /\ Len(sOut) = 0)
    => /\ sAcc = Decode(<<>>, Consumed).out
       /\ sDec = Decode(<<>>, Consumed).dec

\* C28 witness: a character of two bytes is cut by a chunk boundary: its first
\* byte is kept, then the character comes out whole
C28_Witness ==
  /\ sPc = "scan" /\ sMarks = <<OK>> /\ sBytes = <<97, 195, 169>>
  /\ sIn = <<<<169>>>> /\ sDec = <<195>> /\ sAcc = <<97>>

\* a passthrough or a scan in flight
Loops == {p \in procs : p.id[2] \in {"pass", "scan"}}

\* C29: picoserial.picoreader is the reader of a loop in flight or undefined,
\* every loop has its read pending on the reader it acquired, and a loop that
\* ends releases no reader but its own
C29_ReaderOwnership ==
  [][/\ picoreader' # None => \E p \in procs' : p.id = picoreader'
     /\ \A p \in procs' : (p.id[2] \in {"pass", "scan"} /\ p.pc = "read") => p.rd = p.id
     /\ \A p \in Loops :
          (~\E q \in procs' : q.id = p.id)
            => \A r \in DOMAIN rstate :
                 (r # p.id /\ rstate[r] # "released" /\ r \in DOMAIN rstate')
                   => rstate'[r] # "released"]_vars

----------------------------------------------------------------------------
(* Connect and disconnect over several ports: picoserial.picoport refers to  *)
(* one of them, openpicoport and disconnectFromPort are calls in flight      *)

PortCall(n, f, pc, pt) == [n |-> n, f |-> f, pc |-> pc, port |-> pt, rd |-> NoPort]

\* Pico.markDisconnected
PortsMarkDisconnected(c) == [c EXCEPT !.picoport = NoPort, !.disabled = FALSE]

\* readpicoport() up to its first read: the reference must have a readable
\* end; getReader() throws when that end is locked
PortsReadPicoPort(c) ==
  IF c.picoport # NoPort /\ c.state[c.picoport] = "opened" /\ c.picoport \notin c.locked
  THEN [c EXCEPT !.picoreader = c.picoport, !.locked = @ \cup {c.picoport}]
  ELSE c

\* openpicoport after getSelectedPort: open() is rejected unless the port is
\* closed
PortsOpenCall(c, n) ==
  IF c.picoport = NoPort THEN c
  ELSE IF c.state[c.picoport] # "closed"
  THEN PortsMarkDisconnected([c EXCEPT !.disabled = TRUE])
  ELSE [c EXCEPT !.disabled = TRUE, !.state[c.picoport] = "opening",
                 !.calls = @ \cup {PortCall(n, "open", "open", c.picoport)}]

\* disconnectFromPort from localPort.close() on: close() is rejected unless
\* the port is open with no stream locked
PortsDiscClose(c, n, localPort) ==
  IF localPort = NoPort \/ c.state[localPort] # "opened" \/ localPort \in c.locked
  THEN PortsMarkDisconnected(c)
  ELSE [c EXCEPT !.state[localPort] = "closing",
                 !.calls = @ \cup {PortCall(n, "disc", "close", localPort)}]

\* disconnectFromPort up to its first await
PortsDisconnect(c, n) ==
  LET localPort == c.picoport
      c1 == [c EXCEPT !.picoport = NoPort]
  IN IF c1.picoreader # NoPort
     THEN [c1 EXCEPT !.calls = @ \cup {[PortCall(n, "disc", "cancel", localPort)
                                          EXCEPT !.rd = c1.picoreader]}]
     ELSE PortsDiscClose(c1, n, localPort)

InitPorts ==
  /\ port = "closed" /\ rfatal = FALSE /\ wfatal = FALSE
  /\ rstream = "none" /\ rlock = None /\ rstate = <<>>
  /\ wlock = None /\ wstate = <<>> /\ wq = <<>> /\ wire = <<>>
  /\ picoport = FALSE /\ picoreader = None /\ writer = None
  /\ procs = {} /\ editor = <<>> /\ chooser = FALSE /\ ev = <<>>
  /\ nops = 0 /\ nkeys = 0 /\ nchunks = 0 /\ nerrs = 0
  /\ sBytes = <<>> /\ sIn = <<>> /\ sMarks = <<>> /\ sOut = <<>>
  /\ sAcc = <<>> /\ sDec = <<>> /\ sPc = "idle" /\ sLease = FALSE
  /\ fContent = <<>> /\ fTodo = <<>> /\ fWire = <<>>
  /\ conn = NoCalls

PortsStep(c) == conn' = c /\ UNCHANGED <<mainVars, scanVars, fileVars>>

\* the Connect button
PortsClick ==
  /\ conn.clicks < MaxClicks /\ ~conn.chooser
  /\ LET n == conn.clicks + 1
         c == [conn EXCEPT !.clicks = n]
     IN IF c.picoport # NoPort THEN PortsStep(PortsDisconnect(c, n))
        ELSE IF c.selected = NoPort
        THEN PortsStep([c EXCEPT !.chooser = TRUE,
                                 !.calls = @ \cup {PortCall(n, "open", "req", NoPort)}])
        ELSE PortsStep(PortsOpenCall(PortsReadPicoPort([c EXCEPT !.picoport = c.selected]), n))

\* navigator.serial.requestPort settles: the user has chosen a port or none
PortsRequestDone ==
  \E k \in conn.calls : /\ k.pc = "req"
    /\ \E pt \in Ports \cup {NoPort} :
         LET c == [conn EXCEPT !.chooser = FALSE, !.calls = @ \ {k}] IN
         IF pt = NoPort THEN PortsStep(c)
         ELSE PortsStep(PortsOpenCall([c EXCEPT !.picoport = pt, !.selected = pt], k.n))

\* picoport.open(options) settles
PortsOpenDone ==
  \E k \in conn.calls : /\ k.pc = "open"
    /\ \E opened \in BOOLEAN :
         LET c == [conn EXCEPT !.calls = @ \ {k}] IN
         IF opened THEN PortsStep([c EXCEPT !.state[k.port] = "opened"])
         ELSE PortsStep(PortsMarkDisconnected([c EXCEPT !.state[k.port] = "closed"]))

\* picoreader.cancel() is fulfilled: the cancelled stream (of port k.rd) is
\* gone, the read loop has ended and released picoserial.picoreader
PortsCancelDone ==
  \E k \in conn.calls : /\ k.pc = "cancel"
    /\ PortsStep(PortsDiscClose([conn EXCEPT !.calls = @ \ {k},
                                             !.locked = @ \ {k.rd, conn.picoreader},
                                             !.picoreader = NoPort],
                                k.n, k.port))

\* localPort.close() is fulfilled
PortsCloseDone ==
  \E k \in conn.calls : /\ k.pc = "close"
    /\ PortsStep(PortsMarkDisconnected([conn EXCEPT !.calls = @ \ {k},
                                                    !.state[k.port] = "closed"]))

\* the user picks an option of the port selector
PortsSelect ==
  /\ ~conn.disabled /\ ~conn.chooser
  /\ \E pt \in Ports \cup {NoPort} :
       pt # conn.selected /\ PortsStep([conn EXCEPT !.selected = pt])

\* a device is plugged in: the serial 'connect' event selects its option
PortsPlugIn ==
  \E pt \in Ports :
    /\ pt # conn.selected /\ conn.state[pt] = "closed"
    /\ PortsStep([conn EXCEPT !.selected = pt])

\* readpicoport() at the end of a writeFile or loadTempPy
PortsResume ==
  /\ conn.picoport # NoPort /\ conn.state[conn.picoport] = "opened"
  /\ conn.picoport \notin conn.locked
  /\ PortsStep(PortsReadPicoPort(conn))

NextPorts ==
  \/ PortsClick \/ PortsRequestDone \/ PortsOpenDone \/ PortsCancelDone
  \/ PortsCloseDone \/ PortsSelect \/ PortsPlugIn \/ PortsResume

SpecPorts == InitPorts /\ [][NextPorts]_vars

\* C30: when a disconnectFromPort ends while the port reference is defined,
\* set by a connect request that came after it, the reference is left as it
\* is
C30_DisconnectKeepsNewPort ==
  [][\A k \in conn.calls :
       (/\ k.f = "disc" /\ conn.picoport # NoPort
        /\ ~\E j \in conn'.calls : j.n = k.n)
         => conn'.picoport = conn.picoport]_vars

\* C31: whenever the transport is open and no disconnectFromPort is in flight,
\* picoserial.picoport refers to the port
C31_PortReferenceTracksTransport ==
  (port = "opened" /\ ~\E p \in procs : p.id[2] = "disc") => picoport

----------------------------------------------------------------------------
(* The write end of a session that is connected: the requests that take     *)
(* Pico.writer, the Connect button as Disconnect, and the completions of     *)
(* writes, cancels and closes                                                *)

\* the session after a connect request whose open() succeeded: the port is
\* open and referred to, and no reader was taken, since readpicoport() ran
\* before the port had a readable end; clicks are counted from here
InitOpened ==
  /\ port = "opened" /\ rfatal = FALSE /\ wfatal = FALSE
  /\ rstream = "none" /\ rlock = None /\ rstate = <<>>
  /\ wlock = None /\ wstate = <<>> /\ wq = <<>> /\ wire = <<>>
  /\ picoport = TRUE /\ picoreader = None /\ writer = None
  /\ procs = {} /\ editor = <<>> /\ chooser = FALSE /\ ev = <<>>
  /\ nops = 0 /\ nkeys = 0 /\ nchunks = 0 /\ nerrs = 0
  /\ sBytes = <<>> /\ sIn = <<>> /\ sMarks = <<>> /\ sOut = <<>>
  /\ sAcc = <<>> /\ sDec = <<>> /\ sPc = "idle" /\ sLease = FALSE
  /\ fContent = <<>> /\ fTodo = <<>> /\ fWire = <<>>
  /\ conn = NoCalls

NextWriter ==
  \/ ClickSave \/ ClickLoad \/ ClickRun \/ ClickStop \/ Disconnect
  \/ CloseDone \/ CancelDone \/ WriteDone \/ Microtask

SpecWriter == InitOpened /\ [][NextWriter]_vars

\* C32: while runCode, writeFile or loadTempPy is suspended on one of its
\* writes, Pico.writer is the writer that the operation acquired, and when the
\* operation ends that writer has been released
C32_WriterStable ==
  /\ \A p \in procs :
       (p.pc = "w" /\ p.id[2] \in {"run", "wf", "load"}) => writer = p.id
  /\ \A i \in DOMAIN ev :
       (ev[i].e = "end" /\ ev[i].k \in {"run", "wf", "load"})
         => \A w \in DOMAIN wstate :
              (w[1] = ev[i].tx /\ w[2] = ev[i].k) => wstate[w] = "released"

\* C33: a click on Stop while the port is referred to, open and writable
\* queues the byte 0x03 on the write end
C33_InterruptWritten ==
  [][(/\ nops' = nops + 1 /\ picoport /\ port = "opened" /\ ~wfatal
      /\ \E i \in DOMAIN ev' : ev'[i].k = "send" /\ ev'[i].tx = nops')
       => \E i \in DOMAIN ev' : /\ ev'[i].e = "write" /\ ev'[i].k = "send"
                                /\ ev'[i].tx = nops' /\ ev'[i].x = "ctrlC"]_vars

\* the scan for 0x04 of loadTempPy q has just returned without having been
\* given a chunk that contains the marker
EndedUnmarked(q) ==
  /\ q.id[2] = "load" /\ q.pc = "sdone2"
  /\ \E i \in DOMAIN ev : ev[i].e = "end" /\ ev[i].tx = q.id[1] /\ ev[i].k = "scan"
  /\ ~\E i \in DOMAIN ev : /\ ev[i].e = "yield" /\ ev[i].tx = q.id[1]
                           /\ ev[i].k = "scan" /\ Includes(ev[i].y, EOT)

\* C34: when the scan for 0x04 has ended without its marker, loadTempPy
\* leaves the editor content as it is
C34_EditorOnlyCompleteResponse ==
  [][(\E q \in procs : EndedUnmarked(q)) => editor' = editor]_vars

\* C35: while a writeFile is in flight no chunk is written to the terminal,
\* and when writeFile ends its drain scan has ended and released its reader
C35_WriteFileSilent ==
  [][/\ (\E p \in procs : p.id[2] = "wf")
          => ~\E i \in DOMAIN ev' : ev'[i].e = "term" /\ ev'[i].x = "data"
     /\ \A i \in DOMAIN ev' :
          (ev'[i].e = "end" /\ ev'[i].k = "wf")
            => LET r == <<ev'[i].tx, "scan", 0>> IN
               /\ ~\E q \in procs' : q.id = r
               /\ r \in DOMAIN rstate' => rstate'[r] = "released"]_vars

\* C36: sendCommand, runCode, writeFile or loadTempPy requested while no port
\* is referred to writes nothing, leaves the port reference, the transport,
\* the readers, the write lease and the editor as they were, leaves the
\* writer of an operation in flight in Pico.writer and starts no passthrough
C36_DisconnectedNoEffect ==
  [][(/\ ~picoport /\ nops' = nops + 1
      /\ \/ \E p \in procs' : /\ p.id[1] = nops'
                              /\ p.id[2] \in {"send", "run", "wf", "load"}
         \/ \E i \in DOMAIN ev' : /\ ev'[i].tx = nops'
                                  /\ ev'[i].k \in {"send", "run", "wf", "load"})
       => /\ UNCHANGED <<wq, wire, wlock, rlock, rstate, rstream, picoreader,
                         picoport, port, editor>>
          /\ ~\E p \in procs' : p.id[1] = nops' /\ p.id[2] = "pass"
          /\ (wlock # None /\ writer = wlock) => writer' = writer]_vars

====
